---------------------------- MODULE Spec2Model ----------------------------
(***************************************************************************)
(* vesti-rss: a paginated news feed is fetched page by page, filtered      *)
(* (duplicates, bad links, bad timestamps) and streamed out as RSS XML.    *)
(*                                                                         *)
(* Two programs of the repository are modelled: main.go (a reader          *)
(* goroutine feeding the main goroutine through a channel) and the         *)
(* batch-stage variant (batchReader, convert and writeXML bound into one   *)
(* pipeline that runs in the main goroutine).                              *)
(*                                                                         *)
(* Text is modelled as follows.  A URL, a path, a title and a tag are      *)
(* sequences of bytes (AppendEscaped decodes UTF-8 itself).  A date or a   *)
(* time is a sequence of code points (the regexp package matches runes).   *)
(***************************************************************************)
EXTENDS Integers, Sequences, FiniteSets, TLC

(***************************************************************************)
(* Bounds of the model.                                                    *)
(***************************************************************************)
\* largest valid value of the -max-items flag that a run is started with
MaxTarget == 2
\* capacity of the batch channel; make(chan []NewsItem, 10) in the source,
\* scaled down so that the producer can be blocked on a full channel
ChanCap == 1

\* the pages the batch-stage variant asks for at most
MaxPages == 2

\* the pieces a text given to AppendEscaped is made of at most
MaxPieces == 2

(***************************************************************************)
(* Sequence helpers.                                                       *)
(***************************************************************************)
Range(s) == { s[i] : i \in DOMAIN s }

IsPrefix(s, t) == Len(s) <= Len(t) /\ SubSeq(t, 1, Len(s)) = s

RECURSIVE Flatten(_)
Flatten(ss) == IF ss = << >> THEN << >> ELSE Head(ss) \o Flatten(Tail(ss))

\* number of consecutive elements of s, from index i on, that belong to C
RECURSIVE RunLen(_, _, _)
RunLen(s, i, C) ==
    IF i > Len(s) \/ s[i] \notin C THEN 0 ELSE 1 + RunLen(s, i + 1, C)

\* strconv.Atoi on a sequence of ASCII digit code points
RECURSIVE Atoi(_)
Atoi(s) ==
    IF s = << >> THEN 0
    ELSE 10 * Atoi(SubSeq(s, 1, Len(s) - 1)) + (s[Len(s)] - 48)

(***************************************************************************)
(* xmlutil: AppendEscaped, AppendTag, isValidXmlChar.                      *)
(***************************************************************************)
RuneError == 65533

isValidXmlChar(r) ==
    \/ r = 9
    \/ r = 10
    \/ r = 13
    \/ (r >= 32 /\ r <= 55295)
    \/ (r >= 57344 /\ r <= 65533)
    \/ (r >= 65536 /\ r <= 1114111)

Cont(b) == b >= 128 /\ b <= 191

\* utf8.DecodeRuneInString(text[i:]), i a 1-based index with i <= Len(text):
\* the rune and its width; an undecodable byte gives (RuneError, 1)
DecodeRune(text, i) ==
    LET n  == Len(text) - i + 1
        b0 == text[i]
        bad == [r |-> RuneError, width |-> 1]
    IN  IF b0 < 128 THEN [r |-> b0, width |-> 1]
        ELSE IF b0 >= 194 /\ b0 <= 223 THEN
            IF n >= 2 /\ Cont(text[i + 1])
            THEN [r |-> (b0 - 192) * 64 + (text[i + 1] - 128), width |-> 2]
            ELSE bad
        ELSE IF b0 >= 224 /\ b0 <= 239 THEN
            IF /\ n >= 3
               /\ text[i + 1] >= (IF b0 = 224 THEN 160 ELSE 128)
               /\ text[i + 1] <= (IF b0 = 237 THEN 159 ELSE 191)
               /\ Cont(text[i + 2])
            THEN [r |-> (b0 - 224) * 4096 + (text[i + 1] - 128) * 64
                          + (text[i + 2] - 128),
                  width |-> 3]
            ELSE bad
        ELSE IF b0 >= 240 /\ b0 <= 244 THEN
            IF /\ n >= 4
               /\ text[i + 1] >= (IF b0 = 240 THEN 144 ELSE 128)
               /\ text[i + 1] <= (IF b0 = 244 THEN 143 ELSE 191)
               /\ Cont(text[i + 2])
               /\ Cont(text[i + 3])
            THEN [r |-> (b0 - 240) * 262144 + (text[i + 1] - 128) * 4096
                          + (text[i + 2] - 128) * 64 + (text[i + 3] - 128),
                  width |-> 4]
            ELSE bad
        ELSE bad

\* ASCII bytes of the replacement texts
EscQuot == <<38, 113, 117, 111, 116, 59>>       \* &quot;
EscApos == <<38, 97, 112, 111, 115, 59>>        \* &apos;
EscAmp  == <<38, 97, 109, 112, 59>>             \* &amp;
EscLt   == <<38, 108, 116, 59>>                 \* &lt;
EscGt   == <<38, 103, 116, 59>>                 \* &gt;
EscBad  == <<92, 117, 70, 70, 70, 68>>          \* backslash u F F F D

Bytes == 0 .. 255

\* the variables of the loop of AppendEscaped: i is the byte index of the
\* next rune and last the start of the run of text not yet copied to dest
EscapeState == [dest : Seq(Bytes), text : Seq(Bytes), last : Nat, i : Nat]

\* Replacement that takes the rune U+FFFD for undecodable whatever its width
ReplacementNoWidthCheck(d) ==
    CASE d.r = 34 -> EscQuot
      [] d.r = 39 -> EscApos
      [] d.r = 38 -> EscAmp
      [] d.r = 60 -> EscLt
      [] d.r = 62 -> EscGt
      [] OTHER -> IF isValidXmlChar(d.r) /\ d.r # RuneError
                  THEN << >>
                  ELSE EscBad

\* Replacement that copies '&'
ReplacementKeepAmp(d) ==
    CASE d.r = 34 -> EscQuot
      [] d.r = 39 -> EscApos
      [] d.r = 60 -> EscLt
      [] d.r = 62 -> EscGt
      [] OTHER -> IF isValidXmlChar(d.r) /\ (d.r # RuneError \/ d.width # 1)
                  THEN << >>
                  ELSE EscBad

\* the switch of AppendEscaped on the decoded rune d: the text that replaces
\* the rune, or << >> when the loop goes on without replacing it
Replacement(d) ==
    CASE d.r = 34 -> EscQuot
      [] d.r = 39 -> EscApos
      [] d.r = 38 -> EscAmp
      [] d.r = 60 -> EscLt
      [] d.r = 62 -> EscGt
      [] OTHER -> IF isValidXmlChar(d.r) /\ (d.r # RuneError \/ d.width # 1)
                  THEN << >>
                  ELSE EscBad

\* the loop of AppendEscaped from the state st on
EscapeFrom[st \in EscapeState] ==
    IF st.i > Len(st.text)
    THEN st.dest \o SubSeq(st.text, st.last, Len(st.text))
    ELSE LET d == DecodeRune(st.text, st.i)
             esc == Replacement(d)
         IN  IF esc = << >>
             THEN EscapeFrom[[st EXCEPT !.i = st.i + d.width]]
             ELSE EscapeFrom[[st EXCEPT
                      !.dest = st.dest \o SubSeq(st.text, st.last, st.i - 1)
                                  \o esc,
                      !.last = st.i + d.width,
                      !.i = st.i + d.width]]

AppendEscaped(dest, text) ==
    EscapeFrom[[dest |-> dest, text |-> text, last |-> 1, i |-> 1]]

\* '<' tag '>' escaped-text '</' tag '>'
AppendTag(dest, tag, text) ==
    AppendEscaped(dest \o <<60>> \o tag \o <<62>>, text)
        \o <<60, 47>> \o tag \o <<62>>

(***************************************************************************)
(* makeURL: the path must be non-empty and start with '/', and             *)
(* url.ParseRequestURI(server + s) must accept it; the result is the       *)
(* String() of the parsed URL.  Of net/url the model keeps: a control      *)
(* byte is rejected, a '%' must be followed by two hex digits, and         *)
(* String() writes a blank of the path as %20.                             *)
(***************************************************************************)
\* "https://www.vesti.ru"
server == <<104, 116, 116, 112, 115, 58, 47, 47, 119, 119, 119, 46,
            118, 101, 115, 116, 105, 46, 114, 117>>

HexDigits == (48 .. 57) \cup (65 .. 70) \cup (97 .. 102)

IsCtl(b) == b < 32 \/ b = 127

BadEscapeAt(s, i) ==
    /\ s[i] = 37
    /\ ~(i + 2 <= Len(s) /\ s[i + 1] \in HexDigits /\ s[i + 2] \in HexDigits)

ParseRequestURIFails(s) ==
    \/ \E i \in DOMAIN s : IsCtl(s[i])
    \/ \E i \in DOMAIN s : BadEscapeAt(s, i)

RECURSIVE EscapePath(_)
EscapePath(s) ==
    IF s = << >> THEN << >>
    ELSE (IF Head(s) = 32 THEN <<37, 50, 48>> ELSE <<Head(s)>>)
             \o EscapePath(Tail(s))

makeURL(s) ==
    IF Len(s) = 0 \/ s[1] # 47 THEN [err |-> "invalid path", link |-> << >>]
    ELSE IF ParseRequestURIFails(s) THEN [err |-> "parse", link |-> << >>]
    ELSE [err |-> "nil", link |-> server \o EscapePath(s)]

(***************************************************************************)
(* makeTS, matchDate, matchTime, monthMap.  Dates and times are sequences  *)
(* of code points.  The instant returned is named by its civil fields in   *)
(* the Moscow zone, after the normalisation time.Date applies to a day     *)
(* that the month does not have.                                           *)
(***************************************************************************)
Digits == 48 .. 57
Blanks == {32, 9}
\* \p{Cyrillic}: the blocks U+0400..U+052F without the two combining marks
\* U+0485, U+0486 of script Inherited
Cyrillic == (1024 .. 1327) \ {1157, 1158}

monthMap(w) ==
    CASE w = <<1103, 1085, 1074, 1072, 1088, 1103>> -> 1
      [] w = <<1092, 1077, 1074, 1088, 1072, 1083, 1103>> -> 2
      [] w = <<1084, 1072, 1088, 1090, 1072>> -> 3
      [] w = <<1072, 1087, 1088, 1077, 1083, 1103>> -> 4
      [] w = <<1084, 1072, 1103>> -> 5
      [] w = <<1080, 1102, 1085, 1103>> -> 6
      [] w = <<1080, 1102, 1083, 1103>> -> 7
      [] w = <<1072, 1074, 1075, 1091, 1089, 1090, 1072>> -> 8
      [] w = <<1089, 1077, 1085, 1090, 1103, 1073, 1088, 1103>> -> 9
      [] w = <<1086, 1082, 1090, 1103, 1073, 1088, 1103>> -> 10
      [] w = <<1085, 1086, 1103, 1073, 1088, 1103>> -> 11
      [] w = <<1076, 1077, 1082, 1072, 1073, 1088, 1103>> -> 12
      [] OTHER -> 0

\* DayShape with 3[0-9] for the last alternative
DayShapeThirties(s) ==
    \/ Len(s) = 1 /\ s[1] \in 49 .. 57
    \/ Len(s) = 2 /\ s[1] = 48 /\ s[2] \in 49 .. 57
    \/ Len(s) = 2 /\ s[1] \in {49, 50} /\ s[2] \in Digits
    \/ Len(s) = 2 /\ s[1] = 51 /\ s[2] \in Digits

\* the first group of matchDate: 0?[1-9] | [1-2][0-9] | 3[01]
DayShape(s) ==
    \/ Len(s) = 1 /\ s[1] \in 49 .. 57
    \/ Len(s) = 2 /\ s[1] = 48 /\ s[2] \in 49 .. 57
    \/ Len(s) = 2 /\ s[1] \in {49, 50} /\ s[2] \in Digits
    \/ Len(s) = 2 /\ s[1] = 51 /\ s[2] \in {48, 49}

\* matchDate(d): << >> when d does not match, else <<d, day, month, year>>.
\* The classes of the pattern are disjoint, so the groups are the maximal
\* runs of digits, blanks, Cyrillic letters, blanks and digits.
matchDate(d) ==
    LET n1 == RunLen(d, 1, Digits)
        b1 == RunLen(d, n1 + 1, Blanks)
        w  == RunLen(d, n1 + b1 + 1, Cyrillic)
        b2 == RunLen(d, n1 + b1 + w + 1, Blanks)
        y0 == n1 + b1 + w + b2
        day   == SubSeq(d, 1, n1)
        word  == SubSeq(d, n1 + b1 + 1, n1 + b1 + w)
        year  == SubSeq(d, y0 + 1, Len(d))
    IN  IF /\ DayShape(day)
           /\ b1 >= 1
           /\ w >= 1
           /\ b2 >= 1
           /\ Len(year) = 4
           /\ year[1] = 50
           /\ year[2] = 48
           /\ year[3] \in Digits
           /\ year[4] \in Digits
        THEN <<d, day, word, year>>
        ELSE << >>

\* matchTime(t): ([01][0-9] | 2[0-3]) ':' [0-5][0-9]
matchTime(t) ==
    IF /\ Len(t) = 5
       /\ \/ t[1] \in {48, 49} /\ t[2] \in Digits
          \/ t[1] = 50 /\ t[2] \in 48 .. 51
       /\ t[3] = 58
       /\ t[4] \in 48 .. 53
       /\ t[5] \in Digits
    THEN <<t, SubSeq(t, 1, 2), SubSeq(t, 4, 5)>>
    ELSE << >>

IsLeap(y) == (y % 4 = 0 /\ y % 100 # 0) \/ y % 400 = 0

DaysIn(y, m) ==
    IF m = 2 THEN (IF IsLeap(y) THEN 29 ELSE 28)
    ELSE IF m \in {4, 6, 9, 11} THEN 30 ELSE 31

\* time.Date(year, month, day, hour, minute, 0, 0, msk): a day past the end
\* of the month runs over into the next month
Date(year, month, day, hour, minute) ==
    IF day <= DaysIn(year, month)
    THEN [year |-> year, month |-> month, day |-> day,
          hour |-> hour, minute |-> minute]
    ELSE [year |-> IF month = 12 THEN year + 1 ELSE year,
          month |-> IF month = 12 THEN 1 ELSE month + 1,
          day |-> day - DaysIn(year, month),
          hour |-> hour, minute |-> minute]

NoTime == [year |-> 1, month |-> 1, day |-> 1, hour |-> 0, minute |-> 0]

makeTS(d, t) ==
    LET m  == matchDate(d)
        mt == matchTime(t)
    IN  IF Len(m) # 4 THEN [err |-> "invalid date", ts |-> NoTime]
        ELSE IF monthMap(m[3]) = 0 THEN [err |-> "invalid month", ts |-> NoTime]
        ELSE IF Len(mt) # 3 THEN [err |-> "invalid time", ts |-> NoTime]
        ELSE [err |-> "nil",
              ts |-> Date(Atoi(m[4]), monthMap(m[3]), Atoi(m[2]),
                          Atoi(mt[2]), Atoi(mt[3]))]


(***************************************************************************)
(* The feed.  A NewsItem carries ID, Title, Anons, URL and DatePub (Day,   *)
(* Time); a page is one response of the server.                            *)
(***************************************************************************)
\* "5 января 2024", "32 января 2024", "09:30"
GoodDay == <<53, 32, 1103, 1085, 1074, 1072, 1088, 1103, 32, 50, 48, 50, 52>>
BadDay  == <<51, 50, 32, 1103, 1085, 1074, 1072, 1088, 1103, 32, 50, 48, 50, 52>>
GoodTime == <<48, 57, 58, 51, 48>>

NewsItem(id, title, url, day) ==
    [ID |-> id, Title |-> title, Anons |-> <<38>>, URL |-> url,
     Day |-> day, Time |-> GoodTime]

\* the records a page is made of: two valid records with identifier 1 that
\* differ in title and link, a valid record with identifier 2, a record
\* whose path lacks the leading '/', and a record whose day is 32
Items ==
    { NewsItem(1, <<97>>, <<47, 97>>, GoodDay),
      NewsItem(1, <<60>>, <<47, 98>>, GoodDay),
      NewsItem(2, <<97>>, <<47, 97>>, GoodDay),
      NewsItem(2, <<98>>, <<98>>, GoodDay),
      NewsItem(1, <<98>>, <<47, 97>>, BadDay) }

\* the record lists of a good page: one record, or two
Batches == { <<x>> : x \in Items } \cup { <<x, y>> : x \in Items, y \in Items }

\* "/n", the continuation path of a good page
NextPath == <<47, 110>>

Response(transport, status, body, success, data, next) ==
    [transport |-> transport, status |-> status, body |-> body,
     Success |-> success, Data |-> data, Next |-> next]

GoodResponse(data) == Response(TRUE, 200, "json", TRUE, data, NextPath)

OneBatch == << NewsItem(1, <<97>>, <<47, 97>>, GoodDay) >>

\* one response for each way a page can fail
BadResponses ==
    { Response(FALSE, 0, "", FALSE, << >>, << >>),          \* transport error
      Response(TRUE, 500, "html", FALSE, << >>, << >>),     \* status not 200
      Response(TRUE, 200, "html", FALSE, << >>, << >>),     \* body is not '{'
      Response(TRUE, 200, "garbage", FALSE, << >>, << >>),  \* not JSON
      Response(TRUE, 200, "json", FALSE, OneBatch, NextPath), \* success=false
      Response(TRUE, 200, "json", TRUE, << >>, NextPath),   \* no news
      Response(TRUE, 200, "json", TRUE, OneBatch, << >>),   \* no next path
      Response(TRUE, 200, "json", TRUE, OneBatch, <<110>>), \* bad next path
      Response(TRUE, 200, "json", TRUE, OneBatch, <<47, 37>>) } \* bad escape

Responses == { GoodResponse(b) : b \in Batches } \cup BadResponses

\* the request the client makes when the run-wide context is cancelled
Cancelled == Response(FALSE, 0, "", FALSE, << >>, << >>)

(***************************************************************************)
(* getResponse and the next() function of newBatchReader.                  *)
(***************************************************************************)
ErrSuccessFalse == "response indicates an error"

getResponse(resp) ==
    IF ~resp.transport THEN "making HTTP request"
    ELSE IF resp.status # 200 THEN "HTTP request returned status code"
    ELSE IF resp.body \notin {"json", "garbage"}
         THEN "response is either empty, or in a wrong format"
    ELSE "nil"

\* BatchReaderNext without the check of len(batch.Data)
BatchReaderNextNoEmptyCheck(resp, cur) ==
    IF getResponse(resp) # "nil"
    THEN [err |-> getResponse(resp), batch |-> << >>, reqURL |-> cur]
    ELSE IF resp.body # "json"
    THEN [err |-> "invalid response", batch |-> << >>, reqURL |-> cur]
    ELSE IF ~resp.Success
    THEN [err |-> ErrSuccessFalse, batch |-> << >>, reqURL |-> cur]
    ELSE IF makeURL(resp.Next).err # "nil"
    THEN [err |-> "next page URL", batch |-> << >>,
          reqURL |-> makeURL(resp.Next).link]
    ELSE [err |-> "nil", batch |-> resp.Data, reqURL |-> makeURL(resp.Next).link]

\* the result of one call of next(): the error, the batch, and the value
\* left in reqURL (cur when the call returns before assigning it)
BatchReaderNext(resp, cur) ==
    IF getResponse(resp) # "nil"
    THEN [err |-> getResponse(resp), batch |-> << >>, reqURL |-> cur]
    ELSE IF resp.body # "json"
    THEN [err |-> "invalid response", batch |-> << >>, reqURL |-> cur]
    ELSE IF ~resp.Success
    THEN [err |-> ErrSuccessFalse, batch |-> << >>, reqURL |-> cur]
    ELSE IF Len(resp.Data) = 0
    THEN [err |-> "response contains no news", batch |-> << >>, reqURL |-> cur]
    ELSE IF makeURL(resp.Next).err # "nil"
    THEN [err |-> "next page URL", batch |-> << >>,
          reqURL |-> makeURL(resp.Next).link]
    ELSE [err |-> "nil", batch |-> resp.Data, reqURL |-> makeURL(resp.Next).link]

(***************************************************************************)
(* The transform loop of theApp (main.go) over one batch.                  *)
(***************************************************************************)
TagTitle == <<116, 105, 116, 108, 101>>
TagDescription == <<100, 101, 115, 99, 114, 105, 112, 116, 105, 111, 110>>
TagLink == <<108, 105, 110, 107>>

\* one <item> element: the three escaped tags, the guid and the pubDate
ItemElement(item, link, ts) ==
    [kind |-> "item",
     title |-> AppendTag(<< >>, TagTitle, item.Title),
     description |-> AppendTag(<< >>, TagDescription, item.Anons),
     link |-> AppendTag(<< >>, TagLink, link),
     guid |-> item.ID,
     pubDate |-> ts]

\* for each record of the feed: makeURL(item.URL), makeTS(item.DatePub.Day,
\* item.DatePub.Time) and the element serialised from them
LinkOf == [x \in Items |-> makeURL(x.URL)]
StampOf == [x \in Items |-> makeTS(x.Day, x.Time)]
ElementOf == [x \in Items |-> ItemElement(x, LinkOf[x].link, StampOf[x].ts)]

\* does the record pass the link and the timestamp validation
Valid(item) == LinkOf[item].err = "nil" /\ StampOf[item].err = "nil"

\* the item element of a record that passes them
Transformed(item) == ElementOf[item]

\* TransformItem without the check for a duplicate
TransformItemNoDupCheck(item, sn, buff) ==
    IF LinkOf[item].err # "nil" THEN [seen |-> sn, buff |-> buff]
    ELSE IF StampOf[item].err # "nil" THEN [seen |-> sn, buff |-> buff]
    ELSE [seen |-> sn \cup {item.ID}, buff |-> Append(buff, ElementOf[item])]

\* TransformItem marking the identifier as seen before the validation
TransformItemSeenFirst(item, sn, buff) ==
    IF item.ID \in sn THEN [seen |-> sn, buff |-> buff]
    ELSE IF LinkOf[item].err # "nil"
    THEN [seen |-> sn \cup {item.ID}, buff |-> buff]
    ELSE IF StampOf[item].err # "nil"
    THEN [seen |-> sn \cup {item.ID}, buff |-> buff]
    ELSE [seen |-> sn \cup {item.ID}, buff |-> Append(buff, ElementOf[item])]

\* the body of the loop over the items of a batch for one item: the seen
\* set and the buffer after it
TransformItem(item, sn, buff) ==
    IF item.ID \in sn THEN [seen |-> sn, buff |-> buff]
    ELSE IF LinkOf[item].err # "nil" THEN [seen |-> sn, buff |-> buff]
    ELSE IF StampOf[item].err # "nil" THEN [seen |-> sn, buff |-> buff]
    ELSE [seen |-> sn \cup {item.ID}, buff |-> Append(buff, ElementOf[item])]

\* the loop over the items of a batch: r is the seen set and the buffer
\* after the first item, the rest of the batch goes on from them
RECURSIVE TransformBatch(_, _, _)
TransformBatch(b, sn, buff) ==
    IF b = << >> THEN [seen |-> sn, buff |-> buff]
    ELSE CHOOSE res \in { TransformBatch(Tail(b), r.seen, r.buff) :
                              r \in {TransformItem(Head(b), sn, buff)} } : TRUE

Header == [kind |-> "header"]
Footer == [kind |-> "footer"]

(***************************************************************************)
(* The state of a run.  main.go: app.Run(theApp) on the main goroutine,    *)
(* the reader goroutine started by startReader, and the signal monitor.    *)
(***************************************************************************)
VARIABLES
    maxItems,     \* the -max-items flag
    pm,           \* main goroutine: "start", "header", "loop", "footer"
                  \* (main.go), "stage_start", "stage_header", "stage_page",
                  \* "stage_footer" (batch-stage variant), then "returned"
                  \* (theApp has returned), "wait" (wg.Wait), "exit"
                  \* (os.Exit was called)
    appErr,       \* the error theApp returned ("nil" for none)
    pp,           \* reader goroutine: "idle" (not started), "next", "send",
                  \* "report" (the function has returned, ch is closed),
                  \* "done" (wg.Done was called)
    n,            \* the reader's remaining count
    reqURL,       \* the page cursor of the batch reader
    page,         \* the number of calls of next() so far
    batch,        \* the batch the reader holds between next() and the send
    perr,         \* the error the reader function returned
    ch,           \* the batches buffered in the channel
    closed,       \* close(ch) was called
    seen,         \* identifiers of the items serialised so far
    out,          \* what reached standard output
    writeFailed,  \* a write to standard output has failed
    code,         \* app.code, the exit status
    shut,         \* the main context is cancelled
    exitCode,     \* the status given to os.Exit (-1 before)
    fetched,      \* history: the batches next() returned
    sent,         \* history: the batches sent on ch
    recvd,        \* history: the batches delivered to the transform loop
    blockedShut,  \* history: shutdown came while the reader was blocked
                  \* sending to the full channel
    tookAfter,    \* history: the consumer took a batch after that
    tookLate,     \* history: the consumer took a batch after the reader
                  \* had failed on a page with success=false
    lastResp,     \* history: the response to the last request of next()
    lateFetch,    \* history: a call of next() began after the main context
                  \* was cancelled
    call,         \* a call of a function taken on its own: its arguments
                  \* and its result (NoCall in a run of the program)
    exitHandlers, \* app.exitHandlers, the stack of functions AtExit filled
    invoked       \* history: the calls of exit handlers made by Run, each
                  \* with the handler and the flag it was passed

vars == <<maxItems, pm, appErr, pp, n, reqURL, page, batch, perr, ch, closed, seen,
          out, writeFailed, code, shut, exitCode, fetched, sent, recvd,
          blockedShut, tookAfter, tookLate, lastResp, lateFetch, call,
          exitHandlers, invoked>>

mainVars == <<pm, appErr, seen, out, writeFailed, exitCode, recvd>>
readerVars == <<pp, n, reqURL, page, batch, perr, fetched, sent>>
hist == <<blockedShut, tookAfter, tookLate>>

\* no request was made yet; no function is called on its own
NoResponse == Response(FALSE, -1, "", FALSE, << >>, << >>)
NoCall == [fn |-> "none"]

\* the bound of the flag check in theApp
MaxItemsLimit == 500

\* the flag values of the model: the valid ones up to MaxTarget, and the
\* nearest invalid value on each side
Targets == (0 .. MaxTarget) \cup {MaxItemsLimit + 1}

\* server + "/api/news"
FirstURL == server \o <<47, 97, 112, 105, 47, 110, 101, 119, 115>>

Init ==
    /\ maxItems \in Targets
    /\ pm = "start"
    /\ appErr = "nil"
    /\ pp = "idle"
    /\ n = 0
    /\ reqURL = << >>
    /\ page = 0
    /\ batch = << >>
    /\ perr = "nil"
    /\ ch = << >>
    /\ closed = FALSE
    /\ seen = {}
    /\ out = << >>
    /\ writeFailed = FALSE
    /\ code = 0
    /\ shut = FALSE
    /\ exitCode = -1
    /\ fetched = << >>
    /\ sent = << >>
    /\ recvd = << >>
    /\ blockedShut = FALSE
    /\ tookAfter = FALSE
    /\ tookLate = FALSE
    /\ lastResp = NoResponse
    /\ lateFetch = FALSE
    /\ call = NoCall
    /\ exitHandlers = << >>
    /\ invoked = << >>

\* the reader is blocked in the select: its send cannot proceed
ReaderBlocked == pp = "send" /\ Len(ch) >= ChanCap

\* writeErr setting the status without the cancel of the main context
WriteErrNoShutdown(ret) ==
    /\ code' = IF code = 0 THEN ret ELSE code
    /\ UNCHANGED <<shut, blockedShut>>

\* writeErr storing the status instead of compare-and-swap
WriteErrStore(ret) ==
    /\ code' = ret
    /\ shut' = TRUE
    /\ blockedShut' = (blockedShut \/ (~shut /\ ReaderBlocked))

\* writeErr(ret, ...): the first error sets the exit status and cancels the
\* main context, a later one is only logged
WriteErr(ret) ==
    /\ code' = IF code = 0 THEN ret ELSE code
    /\ shut' = IF code = 0 THEN TRUE ELSE shut
    /\ blockedShut' = (blockedShut \/ (code = 0 /\ ~shut /\ ReaderBlocked))

\* app.Shutdown(): cancel the main context
Shutdown ==
    /\ shut' = TRUE
    /\ code' = code
    /\ blockedShut' = (blockedShut \/ (~shut /\ ReaderBlocked))

(***************************************************************************)
(* theApp                                                                  *)
(***************************************************************************)
\* the flag check with the upper bound excluded
AppStartExclusive ==
    /\ pm = "start"
    /\ IF maxItems < 1 \/ maxItems >= MaxItemsLimit
       THEN /\ appErr' = "invalid number of items"
            /\ pm' = "returned"
            /\ UNCHANGED <<pp, n, reqURL>>
       ELSE /\ pp' = "next"
            /\ n' = maxItems
            /\ reqURL' = FirstURL
            /\ pm' = "header"
            /\ UNCHANGED appErr
    /\ UNCHANGED <<maxItems, page, batch, perr, ch, closed, seen, out,
                   writeFailed, code, shut, exitCode, fetched, sent, recvd,
                   hist>>
    /\ UNCHANGED <<lastResp, lateFetch, call, exitHandlers, invoked>>

\* the flag check, and startReader: make the channel, start the goroutine
AppStart ==
    /\ pm = "start"
    /\ IF maxItems < 1 \/ maxItems > MaxItemsLimit
       THEN /\ appErr' = "invalid number of items"
            /\ pm' = "returned"
            /\ UNCHANGED <<pp, n, reqURL>>
       ELSE /\ pp' = "next"
            /\ n' = maxItems
            /\ reqURL' = FirstURL
            /\ pm' = "header"
            /\ UNCHANGED appErr
    /\ UNCHANGED <<maxItems, page, batch, perr, ch, closed, seen, out,
                   writeFailed, code, shut, exitCode, fetched, sent, recvd,
                   hist>>
    /\ UNCHANGED <<lastResp, lateFetch, call, exitHandlers, invoked>>

\* Write with the error of a failed write ignored
WriteIgnoreFailure(ok, data, part, cont) ==
    /\ out' = IF ok THEN out \o data ELSE out \o part
    /\ writeFailed' = (writeFailed \/ ~ok)
    /\ pm' = cont
    /\ UNCHANGED appErr

\* write / writeString followed by "if err != nil { return }": data goes to
\* the output and theApp goes on at cont, or the write fails having put
\* part on the output, and theApp returns the error
Write(ok, data, part, cont) ==
    IF ok
    THEN /\ out' = out \o data
         /\ pm' = cont
         /\ UNCHANGED <<appErr, writeFailed>>
    ELSE /\ out' = out \o part
         /\ appErr' = "writing to STDOUT"
         /\ writeFailed' = TRUE
         /\ pm' = "returned"

\* writeString(xmlHeader)
WriteHeader ==
    /\ pm = "header"
    /\ \E ok \in BOOLEAN : Write(ok, <<Header>>, << >>, "loop")
    /\ UNCHANGED <<maxItems, readerVars, ch, closed, seen, code, shut,
                   exitCode, recvd, hist>>
    /\ UNCHANGED <<lastResp, lateFetch, call, exitHandlers, invoked>>

\* one round of the loop over newsChan: take a batch, serialise its items
\* into the buffer, write the buffer.  A write that fails may have put the
\* first k items of the buffer on the output.
ConsumeBatch ==
    /\ pm = "loop"
    /\ ch # << >>
    /\ \E r \in {TransformBatch(Head(ch), seen, << >>)} :
           /\ seen' = r.seen
           /\ \E ok \in BOOLEAN, k \in 0 .. Len(r.buff) :
                 /\ k < Len(r.buff) \/ k = 0
                 /\ ok => k = 0
                 /\ Write(ok, r.buff, SubSeq(r.buff, 1, k), "loop")
    /\ recvd' = Append(recvd, Head(ch))
    /\ ch' = Tail(ch)
    /\ tookAfter' = (tookAfter \/ blockedShut)
    /\ tookLate' = (tookLate \/ perr = ErrSuccessFalse)
    /\ UNCHANGED <<maxItems, readerVars, closed, code, shut, exitCode,
                   blockedShut>>
    /\ UNCHANGED <<lastResp, lateFetch, call, exitHandlers, invoked>>

\* ConsumeEnd leaving the loop as soon as the channel is empty
ConsumeEndNoClosedCheck ==
    /\ pm = "loop"
    /\ ch = << >>
    /\ pm' = "footer"
    /\ UNCHANGED <<maxItems, appErr, readerVars, ch, closed, seen, out,
                   writeFailed, code, shut, exitCode, recvd, hist>>
    /\ UNCHANGED <<lastResp, lateFetch, call, exitHandlers, invoked>>

\* the loop over newsChan ends: the channel is closed and empty
ConsumeEnd ==
    /\ pm = "loop"
    /\ ch = << >>
    /\ closed
    /\ pm' = "footer"
    /\ UNCHANGED <<maxItems, appErr, readerVars, ch, closed, seen, out,
                   writeFailed, code, shut, exitCode, recvd, hist>>
    /\ UNCHANGED <<lastResp, lateFetch, call, exitHandlers, invoked>>

\* WriteFooter returning without writing the footer
WriteFooterSkipped ==
    /\ pm = "footer"
    /\ pm' = "returned"
    /\ UNCHANGED <<maxItems, appErr, readerVars, ch, closed, seen, out,
                   writeFailed, code, shut, exitCode, recvd, hist>>
    /\ UNCHANGED <<lastResp, lateFetch, call, exitHandlers, invoked>>

\* writeString("</channel>\n</rss>\n") and the return of theApp
WriteFooter ==
    /\ pm = "footer"
    /\ \E ok \in BOOLEAN : Write(ok, <<Footer>>, << >>, "returned")
    /\ UNCHANGED <<maxItems, readerVars, ch, closed, seen, code, shut,
                   exitCode, recvd, hist>>
    /\ UNCHANGED <<lastResp, lateFetch, call, exitHandlers, invoked>>

(***************************************************************************)
(* app.Run after fn() has returned                                         *)
(***************************************************************************)
\* RunReport without the cancel of the main context
RunReportNoShutdown ==
    /\ pm = "returned"
    /\ code' = IF appErr # "nil" /\ code = 0 THEN 1 ELSE code
    /\ UNCHANGED <<shut, blockedShut>>
    /\ pm' = "wait"
    /\ UNCHANGED <<maxItems, appErr, readerVars, ch, closed, seen, out,
                   writeFailed, exitCode, recvd, tookAfter, tookLate>>
    /\ UNCHANGED <<lastResp, lateFetch, call, exitHandlers, invoked>>

\* Error(err.Error()) for an error, Shutdown() for none
RunReport ==
    /\ pm = "returned"
    /\ IF appErr # "nil" THEN WriteErr(1) ELSE Shutdown
    /\ pm' = "wait"
    /\ UNCHANGED <<maxItems, appErr, readerVars, ch, closed, seen, out,
                   writeFailed, exitCode, recvd, tookAfter, tookLate>>
    /\ UNCHANGED <<lastResp, lateFetch, call, exitHandlers, invoked>>

\* RunExit without wg.Wait()
RunExitNoWait ==
    /\ pm = "wait"
    /\ exitCode' = code
    /\ pm' = "exit"
    /\ UNCHANGED <<maxItems, appErr, readerVars, ch, closed, seen, out,
                   writeFailed, code, shut, recvd, hist>>
    /\ UNCHANGED <<lastResp, lateFetch, call, exitHandlers, invoked>>

\* wg.Wait() returns, os.Exit(int(code.Load()))
RunExit ==
    /\ pm = "wait"
    /\ pp \in {"idle", "done"}
    /\ exitCode' = code
    /\ pm' = "exit"
    /\ UNCHANGED <<maxItems, appErr, readerVars, ch, closed, seen, out,
                   writeFailed, code, shut, recvd, hist>>
    /\ UNCHANGED <<lastResp, lateFetch, call, exitHandlers, invoked>>

\* the signal monitor receives a signal: writeErr(2, ...)
Signal ==
    /\ pm # "exit"
    /\ WriteErr(2)
    /\ UNCHANGED <<maxItems, mainVars, readerVars, ch, closed, tookAfter,
                   tookLate>>
    /\ UNCHANGED <<lastResp, lateFetch, call, exitHandlers, invoked>>

(***************************************************************************)
(* the goroutine of startReader                                            *)
(***************************************************************************)
ErrShutdown == "batch reader thread stopped due to application shutdown"

\* the function returns err: the deferred close(ch) runs
ReaderReturnNoClose(err) ==
    /\ perr' = err
    /\ closed' = closed
    /\ pp' = "report"

ReaderReturn(err) ==
    /\ perr' = err
    /\ closed' = TRUE
    /\ pp' = "report"

\* ReaderFinish returning without the deferred close(ch)
ReaderFinishNoClose ==
    /\ pp = "next"
    /\ n <= 0
    /\ ReaderReturnNoClose("nil")
    /\ UNCHANGED <<maxItems, mainVars, n, reqURL, page, batch, fetched, sent,
                   ch, code, shut, blockedShut, tookAfter, tookLate>>
    /\ UNCHANGED <<lastResp, lateFetch, call, exitHandlers, invoked>>

\* the loop condition n > 0 fails: return nil
ReaderFinish ==
    /\ pp = "next"
    /\ n <= 0
    /\ ReaderReturn("nil")
    /\ UNCHANGED <<maxItems, mainVars, n, reqURL, page, batch, fetched, sent,
                   ch, code, shut, blockedShut, tookAfter, tookLate>>
    /\ UNCHANGED <<lastResp, lateFetch, call, exitHandlers, invoked>>

\* ReaderFetch with a client that ignores the cancelled context
ReaderFetchIgnoreCancel ==
    /\ pp = "next"
    /\ n > 0
    /\ \E resp \in Responses :
          \E r \in {BatchReaderNext(resp, reqURL)} :
              /\ reqURL' = r.reqURL
              /\ page' = page + 1
              /\ lastResp' = resp
              /\ lateFetch' = (lateFetch \/ shut)
              /\ IF r.err # "nil"
                 THEN /\ ReaderReturn(r.err)
                      /\ UNCHANGED <<n, batch, fetched>>
                 ELSE /\ n' = n - Len(r.batch)
                      /\ batch' = r.batch
                      /\ fetched' = Append(fetched, r.batch)
                      /\ pp' = "send"
                      /\ UNCHANGED <<perr, closed>>
    /\ UNCHANGED <<maxItems, mainVars, sent, ch, code, shut, hist>>
    /\ UNCHANGED <<call, exitHandlers, invoked>>

\* ReaderFetch without the count of the delivered records
ReaderFetchNoCount ==
    /\ pp = "next"
    /\ n > 0
    /\ \E resp \in (IF shut THEN {Cancelled} ELSE Responses) :
          \E r \in {BatchReaderNext(resp, reqURL)} :
              /\ reqURL' = r.reqURL
              /\ page' = page + 1
              /\ lastResp' = resp
              /\ lateFetch' = (lateFetch \/ shut)
              /\ IF r.err # "nil"
                 THEN /\ ReaderReturn(r.err)
                      /\ UNCHANGED <<n, batch, fetched>>
                 ELSE /\ n' = n
                      /\ batch' = r.batch
                      /\ fetched' = Append(fetched, r.batch)
                      /\ pp' = "send"
                      /\ UNCHANGED <<perr, closed>>
    /\ UNCHANGED <<maxItems, mainVars, sent, ch, code, shut, hist>>
    /\ UNCHANGED <<call, exitHandlers, invoked>>

\* batch, err := next(); a request made with the context cancelled fails
ReaderFetch ==
    /\ pp = "next"
    /\ n > 0
    /\ \E resp \in (IF shut THEN {Cancelled} ELSE Responses) :
          \E r \in {BatchReaderNext(resp, reqURL)} :
              /\ reqURL' = r.reqURL
              /\ page' = page + 1
              /\ lastResp' = resp
              /\ lateFetch' = (lateFetch \/ shut)
              /\ IF r.err # "nil"
                 THEN /\ ReaderReturn(r.err)
                      /\ UNCHANGED <<n, batch, fetched>>
                 ELSE /\ n' = n - Len(r.batch)
                      /\ batch' = r.batch
                      /\ fetched' = Append(fetched, r.batch)
                      /\ pp' = "send"
                      /\ UNCHANGED <<perr, closed>>
    /\ UNCHANGED <<maxItems, mainVars, sent, ch, code, shut, hist>>
    /\ UNCHANGED <<call, exitHandlers, invoked>>

\* ReaderSend on a channel that drops the buffered batch when it is full
ReaderSendOverwrite ==
    /\ pp = "send"
    /\ ch' = IF Len(ch) < ChanCap THEN Append(ch, batch) ELSE <<batch>>
    /\ sent' = Append(sent, batch)
    /\ pp' = "next"
    /\ UNCHANGED <<maxItems, mainVars, n, reqURL, page, batch, perr, fetched,
                   closed, code, shut, hist>>
    /\ UNCHANGED <<lastResp, lateFetch, call, exitHandlers, invoked>>

\* select, case ch <- batch
ReaderSend ==
    /\ pp = "send"
    /\ Len(ch) < ChanCap
    /\ ch' = Append(ch, batch)
    /\ sent' = Append(sent, batch)
    /\ pp' = "next"
    /\ UNCHANGED <<maxItems, mainVars, n, reqURL, page, batch, perr, fetched,
                   closed, code, shut, hist>>
    /\ UNCHANGED <<lastResp, lateFetch, call, exitHandlers, invoked>>

\* a select without the case <-app.Shut()
ReaderShutMissing ==
    /\ FALSE
    /\ UNCHANGED vars

\* select, case <-app.Shut()
ReaderShut ==
    /\ pp = "send"
    /\ shut
    /\ ReaderReturn(ErrShutdown)
    /\ UNCHANGED <<maxItems, mainVars, n, reqURL, page, batch, fetched, sent,
                   ch, code, shut, blockedShut, tookAfter, tookLate>>
    /\ UNCHANGED <<lastResp, lateFetch, call, exitHandlers, invoked>>

\* the wrapper of app.Go: Error(err.Error()) for an error, then wg.Done()
ReaderReport ==
    /\ pp = "report"
    /\ IF perr # "nil"
       THEN WriteErr(1)
       ELSE UNCHANGED <<code, shut, blockedShut>>
    /\ pp' = "done"
    /\ UNCHANGED <<maxItems, mainVars, n, reqURL, page, batch, perr, fetched, sent,
                   ch, closed, tookAfter, tookLate>>
    /\ UNCHANGED <<lastResp, lateFetch, call, exitHandlers, invoked>>

Next ==
    \/ AppStart
    \/ WriteHeader
    \/ ConsumeBatch
    \/ ConsumeEnd
    \/ WriteFooter
    \/ RunReport
    \/ RunExit
    \/ Signal
    \/ ReaderFinish
    \/ ReaderFetch
    \/ ReaderSend
    \/ ReaderShut
    \/ ReaderReport

Spec == Init /\ [][Next]_vars

\* the steps of the main goroutine, and of the reader goroutine
Main ==
    AppStart \/ WriteHeader \/ ConsumeBatch \/ ConsumeEnd \/ WriteFooter
        \/ RunReport \/ RunExit

Reader == ReaderFinish \/ ReaderFetch \/ ReaderSend \/ ReaderShut \/ ReaderReport

\* both goroutines are scheduled as long as they can run
FairSpec == Spec /\ WF_vars(Main) /\ WF_vars(Reader)

\* only the reader goroutine is scheduled for sure: the main goroutine may
\* stop taking batches at any time
FairReaderSpec == Spec /\ WF_vars(Reader)

(***************************************************************************)
(* The batch-stage variant (part_001): theApp returns                      *)
(* writeXML(pump.Bind(batchReader, convert(maxItems))).  Everything runs   *)
(* in the main goroutine: batchReader yields a page to the callback of     *)
(* convert, which yields each accepted item to the callback of writeXML.   *)
(* It uses maxItems, pm, appErr, reqURL (batch.Pagination.Next), page,     *)
(* seen, out, writeFailed and recvd; there is no reader goroutine.         *)
(***************************************************************************)
ErrEOF == "EOF"

\* the state of the callback of convert before the first record of a batch
ConvertStart(sn) ==
    [seen |-> sn, buff |-> << >>, err |-> "nil", returned |-> FALSE,
     yields |-> 0]

\* the loop body of the callback of convert for one record; the write of
\* the failAt-th item yielded in this batch fails (none for failAt = 0)
ConvertItem(item, st, failAt) ==
    IF st.returned \/ item.ID \in st.seen THEN st
    ELSE IF LinkOf[item].err # "nil"
    THEN [st EXCEPT !.err = LinkOf[item].err]
    ELSE IF StampOf[item].err # "nil"
    THEN [st EXCEPT !.err = StampOf[item].err]
    ELSE IF st.yields + 1 = failAt
    THEN [st EXCEPT !.seen = @ \cup {item.ID},
                    !.err = "writing to STDOUT",
                    !.returned = TRUE]
    ELSE [st EXCEPT !.seen = @ \cup {item.ID},
                    !.buff = Append(@, ElementOf[item]),
                    !.err = "nil",
                    !.yields = @ + 1]

\* the loop of the callback of convert over the records of a batch
RECURSIVE ConvertLoop(_, _, _)
ConvertLoop(b, st, failAt) ==
    IF b = << >> THEN st
    ELSE ConvertLoop(Tail(b), ConvertItem(Head(b), st, failAt), failAt)

\* the end of the callback of convert: the check of len(seen) against
\* maxItems, then the return of the named result err
ConvertReturn(st, target) ==
    [seen |-> st.seen,
     buff |-> st.buff,
     err |-> IF st.returned THEN st.err
             ELSE IF Cardinality(st.seen) >= target THEN ErrEOF
             ELSE st.err]

\* the callback of convert for a batch
ConvertBatch(b, sn, target, failAt) ==
    ConvertReturn(ConvertLoop(b, ConvertStart(sn), failAt), target)

StageInit ==
    /\ maxItems \in Targets
    /\ pm = "stage_start"
    /\ appErr = "nil"
    /\ pp = "idle"
    /\ n = 0
    /\ reqURL = << >>
    /\ page = 0
    /\ batch = << >>
    /\ perr = "nil"
    /\ ch = << >>
    /\ closed = FALSE
    /\ seen = {}
    /\ out = << >>
    /\ writeFailed = FALSE
    /\ code = 0
    /\ shut = FALSE
    /\ exitCode = -1
    /\ fetched = << >>
    /\ sent = << >>
    /\ recvd = << >>
    /\ blockedShut = FALSE
    /\ tookAfter = FALSE
    /\ tookLate = FALSE
    /\ lastResp = NoResponse
    /\ lateFetch = FALSE
    /\ call = NoCall
    /\ exitHandlers = << >>
    /\ invoked = << >>

\* what the stage variant never touches
stageIdle ==
    <<maxItems, pp, n, batch, perr, ch, closed, fetched, sent, exitCode, hist>>

\* the flag check
StageStart ==
    /\ pm = "stage_start"
    /\ IF maxItems < 1 \/ maxItems > MaxItemsLimit
       THEN /\ appErr' = "invalid number of items"
            /\ pm' = "returned"
            /\ UNCHANGED reqURL
       ELSE /\ reqURL' = FirstURL
            /\ pm' = "stage_header"
            /\ UNCHANGED appErr
    /\ UNCHANGED <<stageIdle, page, seen, out, writeFailed, code, shut, recvd>>
    /\ UNCHANGED <<lastResp, lateFetch, call, exitHandlers, invoked>>

\* writeXML: writeString(xmlHeader, time.Now().Year())
StageWriteHeader ==
    /\ pm = "stage_header"
    /\ \E ok \in BOOLEAN : Write(ok, <<Header>>, << >>, "stage_page")
    /\ UNCHANGED <<stageIdle, reqURL, page, seen, code, shut, recvd>>
    /\ UNCHANGED <<lastResp, lateFetch, call, exitHandlers, invoked>>

\* StageYield with the target-reached signal taken for an error
StageYieldEOFIsError(b, c) ==
    /\ seen' = c.seen
    /\ out' = out \o c.buff
    /\ recvd' = Append(recvd, b)
    /\ writeFailed' = (c.err = "writing to STDOUT")
    /\ pm' = IF c.err = "nil" THEN "stage_page" ELSE "returned"
    /\ appErr' = IF c.err = "nil" THEN appErr ELSE c.err

\* the callback of convert has returned c for the batch b: the items it
\* yielded are written, and batchReader goes on or returns c.err
StageYield(b, c) ==
    /\ seen' = c.seen
    /\ out' = out \o c.buff
    /\ recvd' = Append(recvd, b)
    /\ writeFailed' = (c.err = "writing to STDOUT")
    /\ pm' = CASE c.err = "nil" -> "stage_page"
               [] c.err = ErrEOF -> "stage_footer"
               [] OTHER -> "returned"
    /\ appErr' = IF c.err \in {"nil", ErrEOF} THEN appErr ELSE c.err

\* one round of the loop of batchReader: fetch and check a page, yield its
\* records to convert, which yields the accepted ones to writeXML
StagePage ==
    /\ pm = "stage_page"
    /\ page < MaxPages
    /\ \E resp \in (IF shut THEN {Cancelled} ELSE Responses) :
          \E r \in {BatchReaderNext(resp, reqURL)} :
              /\ reqURL' = r.reqURL
              /\ page' = page + 1
              /\ lastResp' = resp
              /\ lateFetch' = (lateFetch \/ shut)
              /\ IF r.err # "nil"
                 THEN /\ appErr' = r.err
                      /\ pm' = "returned"
                      /\ UNCHANGED <<seen, out, writeFailed, recvd>>
                 ELSE \E failAt \in 0 .. Len(r.batch) :
                      \E c \in {ConvertBatch(r.batch, seen, maxItems, failAt)} :
                         /\ failAt # 0 => c.err = "writing to STDOUT"
                         /\ StageYield(r.batch, c)
    /\ UNCHANGED <<stageIdle, code, shut>>
    /\ UNCHANGED <<call, exitHandlers, invoked>>

\* writeXML after io.EOF: writeString("</channel>\n</rss>\n")
StageWriteFooter ==
    /\ pm = "stage_footer"
    /\ \E ok \in BOOLEAN : Write(ok, <<Footer>>, << >>, "returned")
    /\ UNCHANGED <<stageIdle, reqURL, page, seen, code, shut, recvd>>
    /\ UNCHANGED <<lastResp, lateFetch, call, exitHandlers, invoked>>

StageNext ==
    \/ StageStart
    \/ StageWriteHeader
    \/ StagePage
    \/ StageWriteFooter
    \/ RunReport
    \/ RunExit
    \/ Signal

StageSpec == StageInit /\ [][StageNext]_vars

\* either program of the repository
ProgramsSpec == (Init \/ StageInit) /\ [][Next \/ StageNext]_vars

(***************************************************************************)
(* AppendEscaped taken on its own: one call with a destination and a text  *)
(* built from the pieces below.                                            *)
(***************************************************************************)
\* everything but call
runVars ==
    <<maxItems, pm, appErr, pp, n, reqURL, page, batch, perr, ch, closed,
      seen, out, writeFailed, code, shut, exitCode, fetched, sent, recvd,
      blockedShut, tookAfter, tookLate, lastResp, lateFetch, exitHandlers,
      invoked>>

\* the five reserved characters; 'a', ';', U+0001 and the tab; U+FFFD and
\* U+FFFE encoded; the bytes FF and 80; U+044F encoded and its first byte;
\* a surrogate encoded; U+1F600 encoded; the first two bytes of U+FFFD;
\* the texts "&amp;" and backslash u F F F D
Pieces ==
    { <<34>>, <<39>>, <<38>>, <<60>>, <<62>>,
      <<97>>, <<59>>, <<1>>, <<9>>,
      <<239, 191, 189>>, <<239, 191, 190>>,
      <<255>>, <<128>>,
      <<209, 143>>, <<209>>,
      <<237, 160, 128>>,
      <<240, 159, 152, 128>>,
      <<239, 191>>,
      EscAmp, EscBad }

\* the texts made of at most k pieces
RECURSIVE TextsOf(_)
TextsOf(k) ==
    IF k = 0 THEN { << >> }
    ELSE LET T == TextsOf(k - 1)
         IN  T \cup { t \o p : t \in T, p \in Pieces }

Texts == TextsOf(MaxPieces)

\* the destinations: empty, and "<a"
Dests == { << >>, <<60, 97>> }

EscapeInit == Init /\ maxItems = 1

CallAppendEscaped ==
    /\ call = NoCall
    /\ \E dest \in Dests, text \in Texts :
          call' = [fn |-> "AppendEscaped", dest |-> dest, text |-> text,
                   result |-> AppendEscaped(dest, text)]
    /\ UNCHANGED runVars

EscapeSpec == EscapeInit /\ [][CallAppendEscaped]_vars

(***************************************************************************)
(* makeTS taken on its own: one call with a date put together from a day,  *)
(* a separator, a month word, a separator, a year and a tail, and a time.  *)
(***************************************************************************)
\* "1", "5", "01", "09", "10", "29", "30", "31", "32", "0", "00", "001"
DayTexts ==
    { <<49>>, <<53>>, <<48, 49>>, <<48, 57>>, <<49, 48>>, <<50, 57>>,
      <<51, 48>>, <<51, 49>>, <<51, 50>>, <<48>>, <<48, 48>>, <<48, 48, 49>> }

\* a blank, a tab and a blank, nothing, a no-break space
Separators == { <<32>>, <<9, 32>>, << >>, <<160>> }

\* the twelve month names of monthMap
MonthWords ==
    { <<1103, 1085, 1074, 1072, 1088, 1103>>,
      <<1092, 1077, 1074, 1088, 1072, 1083, 1103>>,
      <<1084, 1072, 1088, 1090, 1072>>,
      <<1072, 1087, 1088, 1077, 1083, 1103>>,
      <<1084, 1072, 1103>>,
      <<1080, 1102, 1085, 1103>>,
      <<1080, 1102, 1083, 1103>>,
      <<1072, 1074, 1075, 1091, 1089, 1090, 1072>>,
      <<1089, 1077, 1085, 1090, 1103, 1073, 1088, 1103>>,
      <<1086, 1082, 1090, 1103, 1073, 1088, 1103>>,
      <<1085, 1086, 1103, 1073, 1088, 1103>>,
      <<1076, 1077, 1082, 1072, 1073, 1088, 1103>> }

\* a Cyrillic word that is no month name, "Мая" with a capital, "May"
OtherWords ==
    { <<1084, 1072, 1088, 1090, 1086, 1073, 1088, 1103>>,
      <<1052, 1072, 1103>>,
      <<77, 97, 121>> }

\* "2024", "2023", "2100", "1999", "202"
YearTexts ==
    { <<50, 48, 50, 52>>, <<50, 48, 50, 51>>, <<50, 49, 48, 48>>,
      <<49, 57, 57, 57>>, <<50, 48, 50>> }

\* "09:30", "00:00", "23:59", "24:00", "25:00", "12:60", "9:30", "09:30:00"
TimeTexts ==
    { <<48, 57, 58, 51, 48>>, <<48, 48, 58, 48, 48>>, <<50, 51, 58, 53, 57>>,
      <<50, 52, 58, 48, 48>>, <<50, 53, 58, 48, 48>>, <<49, 50, 58, 54, 48>>,
      <<57, 58, 51, 48>>, <<48, 57, 58, 51, 48, 58, 48, 48>> }

\* the date is the concatenation of its parts
DateText(p) == p.day \o p.sep1 \o p.word \o p.sep2 \o p.year \o p.tail

DateParts ==
    [day : DayTexts, sep1 : Separators, word : MonthWords \cup OtherWords,
     sep2 : { <<32>>, << >> }, year : YearTexts, tail : { << >>, <<32>> }]

TSInit == Init /\ maxItems = 1

CallMakeTS ==
    /\ call = NoCall
    /\ \E p \in DateParts, t \in TimeTexts :
          call' = [fn |-> "makeTS", parts |-> p, d |-> DateText(p), t |-> t,
                   result |-> makeTS(DateText(p), t)]
    /\ UNCHANGED runVars

TSSpec == TSInit /\ [][CallMakeTS]_vars

(***************************************************************************)
(* Properties.                                                             *)
(***************************************************************************)
IsItem(e) == e.kind = "item"
OutItems == SelectSeq(out, IsItem)

HeaderWritten == Len(out) >= 1 /\ out[1] = Header
FooterWritten == \E i \in DOMAIN out : out[i] = Footer
TargetValid == maxItems >= 1 /\ maxItems <= MaxItemsLimit
AppReturned == pm \in {"returned", "wait", "exit"}
ReaderReturned == pp \in {"report", "done"}

\* the records delivered to the transform loop, in arrival order
Delivered == Flatten(recvd)

\* the items the transform loop makes of a sequence of records
ItemsOf(records) == TransformBatch(records, {}, << >>).buff

\* C1: the output holds at most one item per identifier, and the item of an
\* identifier is the transformation of the first delivered record with that
\* identifier that passed the link and the timestamp validation
C1_Deduplication ==
    /\ \A i, j \in DOMAIN OutItems :
          i # j => OutItems[i].guid # OutItems[j].guid
    /\ \A i \in DOMAIN OutItems :
          \E k \in DOMAIN Delivered :
             /\ Delivered[k].ID = OutItems[i].guid
             /\ Valid(Delivered[k])
             /\ \A m \in 1 .. (k - 1) :
                   ~(Delivered[m].ID = OutItems[i].guid /\ Valid(Delivered[m]))
             /\ OutItems[i] = Transformed(Delivered[k])

\* two different valid records with one identifier were delivered, and the
\* item of that identifier is on the output
C1_Witness ==
    \E i, j \in DOMAIN Delivered :
       /\ i < j
       /\ Delivered[i].ID = Delivered[j].ID
       /\ Delivered[i] # Delivered[j]
       /\ Valid(Delivered[i])
       /\ Valid(Delivered[j])
       /\ \E k \in DOMAIN OutItems : OutItems[k] = Transformed(Delivered[i])

\* C2: the number of items written never exceeds the target
C2_TargetCutoff == Len(OutItems) <= maxItems

\* C3: a run that exits with status 0 (no fetch/decode error, no write
\* error, no signal) has written at least as many items as the target
C3_CleanRunReachesTarget ==
    (pm = "exit" /\ exitCode = 0) => Len(OutItems) >= maxItems

\* C4: when the reader ended with a fetch/decode error, the footer is not
\* on the output, and the exit status is not zero
C4_FatalErrorNoFooter ==
    (ReaderReturned /\ perr \notin {"nil", ErrShutdown}) =>
        (~FooterWritten /\ (pm = "exit" => exitCode # 0))

\* C5: once the header is written, the footer is eventually written unless
\* a write fails
C5_FooterEventually == HeaderWritten ~> (FooterWritten \/ writeFailed)

\* the footer is on the output although the reader ended with an error
C5_Witness == FooterWritten /\ perr # "nil" /\ ~writeFailed

\* C6: after a failed write nothing more is written, theApp has returned
\* the write error, and the exit status is not zero
C6_WriteFailureAborts ==
    /\ [](writeFailed => (AppReturned /\ appErr = "writing to STDOUT"))
    /\ []((writeFailed /\ pm = "exit") => exitCode # 0)
    /\ [][writeFailed => out' = out]_vars

\* the header was written, the write of a batch failed, and the run has
\* ended with a batch left in the channel
C6_Witness == writeFailed /\ pm = "exit" /\ HeaderWritten /\ ch # << >>

\* C7: the output is the header, then items, then the footer as the last
\* thing written; a run that got to the header and saw no write fail ends
\* with the header first and the footer last, and nothing is written after
\* the footer
C7_DocumentShape ==
    /\ [](\A i \in DOMAIN out :
             /\ (i = 1) <=> (out[i] = Header)
             /\ (out[i] = Footer) => (i = Len(out))
             /\ (out[i] # Header /\ out[i] # Footer) => IsItem(out[i]))
    /\ []((AppReturned /\ TargetValid /\ ~writeFailed) =>
             (Len(out) >= 2 /\ out[1] = Header /\ out[Len(out)] = Footer))
    /\ [][FooterWritten => out' = out]_vars

\* a run in which records were delivered and none passed validation has
\* ended with the header immediately followed by the footer
C7_Witness == pm = "exit" /\ out = <<Header, Footer>> /\ recvd # << >>

\* C8 as stated: after a page with success=false the run ends with a
\* non-zero status, and every batch that was sent has been taken and its
\* accepted items are on the output
C8_Original ==
    (pm = "exit" /\ perr = ErrSuccessFalse) =>
        /\ exitCode # 0
        /\ recvd = sent
        /\ OutItems = ItemsOf(Flatten(sent))

\* C8 amended: the same, provided no write to the output fails; and after
\* the page with success=false no further page is fetched
C8_FatalEnvelope ==
    /\ []((pm = "exit" /\ perr = ErrSuccessFalse /\ ~writeFailed) =>
             /\ exitCode # 0
             /\ recvd = sent
             /\ OutItems = ItemsOf(Flatten(sent)))
    /\ []((pm = "exit" /\ perr = ErrSuccessFalse) => exitCode # 0)
    /\ [][perr = ErrSuccessFalse => page' = page]_vars

\* a batch was taken after the reader had failed on success=false, and an
\* item of the run is on the output at the end
C8_Witness ==
    /\ pm = "exit"
    /\ perr = ErrSuccessFalse
    /\ tookLate
    /\ ~writeFailed
    /\ Len(OutItems) >= 1

C11_Original == [][page' # page => ~shut]_vars

\* C11 amended: a call of next() that begins after the main context was
\* cancelled fails on the cancelled context: it yields no batch, nothing
\* more is sent, and the reader function returns that error and closes
\* the channel; a batch is only ever obtained with the context live
C11_NoPageAfterShutdown ==
    /\ [][(page' # page /\ shut) =>
              /\ perr' = "making HTTP request"
              /\ pp' = "report"
              /\ closed'
              /\ fetched' = fetched
              /\ batch' = batch
              /\ sent' = sent
              /\ ch' = ch]_vars
    /\ [][fetched' # fetched => ~shut]_vars
    /\ [][lateFetch => page' = page]_vars

\* a batch was sent, then the context was cancelled, and the reader called
\* next() once more and returned its error
C11_Witness ==
    /\ lateFetch
    /\ sent # << >>
    /\ pp = "done"
    /\ perr = "making HTTP request"

\* C12: a signal that arrives while the exit status is still 0 sets it to
\* 2 and cancels the main context; an error of theApp or of the reader
\* sets it to 1; once 2 it stays 2, whatever the reader reports later, and
\* the process exits with it
C12_SignalStatus ==
    /\ [][(code = 0 /\ code' # 0 /\ pm' = pm /\ pp' = pp) =>
              (code' = 2 /\ shut')]_vars
    /\ [][(code = 0 /\ code' # 0 /\ (pm' # pm \/ pp' # pp)) => code' = 1]_vars
    /\ [][code = 2 => code' = 2]_vars
    /\ []((pm = "exit" /\ code = 2) => exitCode = 2)

\* the signal came first, the reader then returned and reported its
\* shutdown error, and the process has exited with status 2
C12_Witness ==
    /\ pm = "exit"
    /\ exitCode = 2
    /\ pp = "done"
    /\ perr = ErrShutdown

\* C13: with both goroutines scheduled fairly, every run reaches os.Exit,
\* with theApp returned (its loop has ended) and the reader goroutine, when
\* one was started, ended after its function returned and closed the channel
C13_Terminates ==
    <>(/\ pm = "exit"
       /\ pp \in {"idle", "done"}
       /\ (pp = "done" => closed))

\* the write of a batch failed while the reader was blocked on the full
\* channel; the reader returned on the shutdown, and the process has exited
C13_Witness ==
    /\ pm = "exit"
    /\ writeFailed
    /\ blockedShut
    /\ ~tookAfter
    /\ perr = ErrShutdown
    /\ exitCode = 1

\* C14: os.Exit is reached only when the goroutine started with app.Go has
\* ended (or none was started), and it takes no step afterwards; when the
\* function returned an error and the wrapper has ended, the main context
\* is cancelled and the exit status is not zero
C14_JoinBeforeExit ==
    /\ [](pm = "exit" => pp \in {"idle", "done"})
    /\ [][pm = "exit" => pp' = pp]_vars
    /\ []((pp = "done" /\ perr # "nil") => (shut /\ code # 0))
    /\ []((pm = "exit" /\ perr # "nil") => exitCode # 0)

\* theApp returned nil after the footer, the reader function returned an
\* error that its wrapper reported, and the process has exited with 1
C14_Witness ==
    /\ pm = "exit"
    /\ appErr = "nil"
    /\ FooterWritten
    /\ pp = "done"
    /\ perr \notin {"nil", ErrShutdown}
    /\ exitCode = 1

\* C15: in main.go, as long as no write has failed, every delivered record
\* that passes the link and the timestamp validation, and is the first
\* such record with its identifier, is on the output, wherever records
\* that fail validation stand; theApp never returns a validation error,
\* and a run in which neither theApp nor the reader returned an error
\* exits with 0 unless a signal came
C15_PartialFailure ==
    /\ [](~writeFailed =>
             \A k \in DOMAIN Delivered :
                (/\ Valid(Delivered[k])
                 /\ \A m \in 1 .. (k - 1) :
                       ~(Delivered[m].ID = Delivered[k].ID
                            /\ Valid(Delivered[m])))
                => \E i \in DOMAIN OutItems :
                      OutItems[i] = Transformed(Delivered[k]))
    /\ [](appErr \in {"nil", "writing to STDOUT", "invalid number of items"})
    /\ []((pm = "exit" /\ appErr = "nil" /\ perr = "nil") =>
             exitCode \in {0, 2})

\* the only record of the first batch failed validation, the second batch
\* held a record that failed validation followed by a valid one with the
\* same identifier, which is on the output, and the run has exited with 0
C15_Witness ==
    /\ pm = "exit"
    /\ exitCode = 0
    /\ Len(recvd) = 2
    /\ Len(recvd[1]) = 1
    /\ ~Valid(recvd[1][1])
    /\ Len(recvd[2]) = 2
    /\ ~Valid(recvd[2][1])
    /\ Valid(recvd[2][2])
    /\ recvd[2][1].ID = recvd[2][2].ID
    /\ OutItems = <<Transformed(recvd[2][2])>>

\* the checks a response must pass for its batch to be delivered: the
\* envelope parsed, success is true, the record list is not empty, and the
\* continuation path is not empty and begins with '/'
Deliverable(r) ==
    /\ r.transport
    /\ r.status = 200
    /\ r.body = "json"
    /\ r.Success
    /\ Len(r.Data) > 0
    /\ Len(r.Next) > 0
    /\ r.Next[1] = 47

\* C16: a call of next() hands over a batch only for a response that
\* passes the checks, and the batch is the record list of that response;
\* a call that hands over no batch returns an error: the reader function
\* returns it, nothing is sent, and no further call is made.  The cursor
\* becomes the resolved continuation URL exactly when a batch is handed
\* over; otherwise it keeps its value or is left empty.
C16_BatchReaderChecks ==
    /\ [][(page' # page /\ fetched' # fetched) =>
              /\ Deliverable(lastResp')
              /\ fetched' = Append(fetched, lastResp'.Data)
              /\ batch' = lastResp'.Data
              /\ pp' = "send"
              /\ reqURL' = server \o EscapePath(lastResp'.Next)]_vars
    /\ [][(page' # page /\ ~Deliverable(lastResp')) =>
              fetched' = fetched]_vars
    /\ [][(page' # page /\ fetched' = fetched) =>
              /\ perr' # "nil"
              /\ pp' = "report"
              /\ closed'
              /\ sent' = sent
              /\ ch' = ch
              /\ reqURL' \in {reqURL, << >>}]_vars
    /\ [][ReaderReturned => (page' = page /\ sent' = sent)]_vars
    /\ []((pm = "exit" /\ perr \notin {"nil", ErrShutdown}) => exitCode # 0)

\* a first page was delivered and sent, the second page had an empty record
\* list: the reader returned the error, the cursor still names the second
\* page, and the run has ended with a non-zero status
C16_Witness ==
    /\ pm = "exit"
    /\ exitCode = 1
    /\ Len(fetched) = 1
    /\ sent = fetched
    /\ page = 2
    /\ perr = "response contains no news"
    /\ Len(lastResp.Data) = 0
    /\ reqURL = server \o NextPath

\* the units utf8.DecodeRuneInString cuts the text into, from index i on:
\* the rune, its width and its bytes
RECURSIVE Units(_, _)
Units(text, i) ==
    IF i > Len(text) THEN << >>
    ELSE LET d == DecodeRune(text, i)
         IN  <<[r |-> d.r, width |-> d.width,
                bytes |-> SubSeq(text, i, i + d.width - 1)]>>
                 \o Units(text, i + d.width)

\* a unit that is a legal XML 1.0 character, properly encoded
LegalUnit(u) ==
    /\ ~(u.r = RuneError /\ u.width = 1)
    /\ \/ u.r \in {9, 10, 13}
       \/ u.r \in 32 .. 55295
       \/ u.r \in 57344 .. 65533
       \/ u.r \in 65536 .. 1114111

ReservedBytes == {34, 39, 38, 60, 62}

\* the reference mapping of one unit
MapUnit(u) ==
    CASE u.bytes = <<34>> -> EscQuot
      [] u.bytes = <<39>> -> EscApos
      [] u.bytes = <<38>> -> EscAmp
      [] u.bytes = <<60>> -> EscLt
      [] u.bytes = <<62>> -> EscGt
      [] OTHER -> IF LegalUnit(u) THEN u.bytes ELSE EscBad

RECURSIVE MapUnits(_)
MapUnits(us) ==
    IF us = << >> THEN << >> ELSE MapUnit(Head(us)) \o MapUnits(Tail(us))

\* C17: AppendEscaped(dest, text) is dest followed by the reference mapping
\* of the units of text, in order; an undecodable byte is one unit of one
\* byte (the first two bytes of a three-byte encoding followed by 'a' give
\* two markers and 'a'); text made only of legal characters other than the
\* five reserved ones is appended unchanged
C17_ReferenceMapping ==
    call.fn = "AppendEscaped" =>
        LET us == Units(call.text, 1)
        IN  /\ call.result = call.dest \o MapUnits(us)
            /\ IsPrefix(call.dest, call.result)
            /\ (call.text = <<239, 191, 97>>) =>
                  (call.result = call.dest \o EscBad \o EscBad \o <<97>>)
            /\ (\A k \in DOMAIN us :
                   LegalUnit(us[k]) /\ us[k].r \notin ReservedBytes)
                  => call.result = call.dest \o call.text

\* a call with a destination that is not empty and a text of an
\* undecodable byte followed by a correctly encoded U+FFFD
C17_Witness ==
    /\ call.fn = "AppendEscaped"
    /\ call.dest = <<60, 97>>
    /\ call.text = <<255, 239, 191, 189>>
    /\ call.result = <<60, 97>> \o EscBad \o <<239, 191, 189>>

\* the five named entities and the characters they stand for
Entities ==
    { [name |-> EscQuot, char |-> 34],
      [name |-> EscApos, char |-> 39],
      [name |-> EscAmp, char |-> 38],
      [name |-> EscLt, char |-> 60],
      [name |-> EscGt, char |-> 62] }

EntityAt(s, i) ==
    { e \in Entities : IsPrefix(e.name, SubSeq(s, i, Len(s))) }

\* s with every named entity replaced by its character, left to right
RECURSIVE Unescape(_)
Unescape(s) ==
    IF s = << >> THEN << >>
    ELSE IF EntityAt(s, 1) # {}
    THEN LET e == CHOOSE x \in EntityAt(s, 1) : TRUE
         IN  <<e.char>> \o Unescape(SubSeq(s, Len(e.name) + 1, Len(s)))
    ELSE <<Head(s)>> \o Unescape(Tail(s))

\* C18: AppendEscaped(nil, s) holds no raw '<', '>', '"' or apostrophe, and
\* every '&' in it starts one of the five entities; when s is made only of
\* legal XML characters, replacing the entities by their characters gives
\* s back
C18_RoundTrip ==
    (call.fn = "AppendEscaped" /\ call.dest = << >>) =>
        /\ \A i \in DOMAIN call.result :
              /\ call.result[i] \notin {60, 62, 34, 39}
              /\ call.result[i] = 38 => EntityAt(call.result, i) # {}
        /\ (\A k \in DOMAIN Units(call.text, 1) :
               LegalUnit(Units(call.text, 1)[k]))
              => Unescape(call.result) = call.text

\* the text "&amp;<" was escaped to "&amp;amp;&lt;"
C18_Witness ==
    /\ call.fn = "AppendEscaped"
    /\ call.dest = << >>
    /\ call.text = EscAmp \o <<60>>
    /\ call.result = EscAmp \o <<97, 109, 112, 59>> \o EscLt

\* the numbers 0 .. 99 written with two digits, and without a leading zero
TwoDigits(k) == <<48 + (k \div 10), 48 + (k % 10)>>
Plain(k) == IF k < 10 THEN <<48 + k>> ELSE TwoDigits(k)

\* the shape of a date: a day 1..31 with an optional leading zero, blanks,
\* one of the twelve month names, blanks, a year 20xx, and nothing more
DateShape(p) ==
    /\ \E k \in 1 .. 31 : p.day = Plain(k) \/ p.day = TwoDigits(k)
    /\ p.sep1 # << >> /\ Range(p.sep1) \subseteq {32, 9}
    /\ p.word \in MonthWords
    /\ p.sep2 # << >> /\ Range(p.sep2) \subseteq {32, 9}
    /\ \E k \in 0 .. 99 : p.year = <<50, 48>> \o TwoDigits(k)
    /\ p.tail = << >>

\* the shape of a time: HH:MM with HH in 00..23 and MM in 00..59
TimeShape(t) ==
    \E h \in 0 .. 23, m \in 0 .. 59 : t = TwoDigits(h) \o <<58>> \o TwoDigits(m)

\* C19: makeTS succeeds exactly for a date and a time of these shapes, and
\* with an error it returns the zero time
C19_ShapeChecked ==
    call.fn = "makeTS" =>
        /\ (call.result.err = "nil") <=>
              (DateShape(call.parts) /\ TimeShape(call.t))
        /\ (call.result.err # "nil") => (call.result.ts = NoTime)

\* "31 января 2024" with the time "23:59" was accepted
C19_Witness ==
    /\ call.fn = "makeTS"
    /\ call.parts.day = <<51, 49>>
    /\ monthMap(call.parts.word) = 1
    /\ call.t = <<50, 51, 58, 53, 57>>
    /\ call.result.err = "nil"
    /\ call.result.ts.day = 31

\* C20: when makeTS succeeds, the instant has, in the Moscow zone, the day,
\* the month, the year, the hour and the minute written in the input
C20_FieldsKept ==
    (call.fn = "makeTS" /\ call.result.err = "nil") =>
        /\ call.result.ts.day = Atoi(call.parts.day)
        /\ call.result.ts.month = monthMap(call.parts.word)
        /\ call.result.ts.year = Atoi(call.parts.year)
        /\ call.result.ts.hour = Atoi(SubSeq(call.t, 1, 2))
        /\ call.result.ts.minute = Atoi(SubSeq(call.t, 4, 5))

(***************************************************************************)
(* The start of a run taken on its own: the flag check of theApp for flag  *)
(* values around both ends of the accepted range, the header, and app.Run  *)
(* for a run that has returned.  The reader is not scheduled here.         *)
(***************************************************************************)
\* flag values on both sides of each end of the accepted range
FlagValues == (-1 .. 3) \cup ((MaxItemsLimit - 2) .. (MaxItemsLimit + 2))

\* the largest number of exit handlers a run registers
MaxHandlers == 2

StartInit ==
    /\ maxItems \in FlagValues
    /\ pm \in {"start", "stage_start"}
    /\ appErr = "nil"
    /\ pp = "idle"
    /\ n = 0
    /\ reqURL = << >>
    /\ page = 0
    /\ batch = << >>
    /\ perr = "nil"
    /\ ch = << >>
    /\ closed = FALSE
    /\ seen = {}
    /\ out = << >>
    /\ writeFailed = FALSE
    /\ code = 0
    /\ shut = FALSE
    /\ exitCode = -1
    /\ fetched = << >>
    /\ sent = << >>
    /\ recvd = << >>
    /\ blockedShut = FALSE
    /\ tookAfter = FALSE
    /\ tookLate = FALSE
    /\ lastResp = NoResponse
    /\ lateFetch = FALSE
    /\ call = NoCall
    /\ exitHandlers = << >>
    /\ invoked = << >>

StartNext ==
    \/ AppStart
    \/ WriteHeader
    \/ StageStart
    \/ StageWriteHeader
    \/ RunReport
    \/ RunExit
    \/ Signal

StartSpec == StartInit /\ [][StartNext]_vars

\* the step of theApp that leaves the start, as C21 has it
FlagCheckStep ==
    (pm \in {"start", "stage_start"} /\ pm' # pm) =>
        IF maxItems >= 1 /\ maxItems <= 500
        THEN /\ pm' = (IF pm = "start" THEN "header" ELSE "stage_header")
             /\ appErr' = "nil"
             /\ reqURL' = FirstURL
             /\ pm = "start" => (pp' = "next" /\ n' = maxItems)
        ELSE /\ pm' = "returned"
             /\ appErr' = "invalid number of items"
             /\ pp' = "idle" /\ n' = 0 /\ reqURL' = << >>
             /\ out' = << >>

\* C21: the flag is checked against [1, 500], both ends accepted, before
\* anything else: the step that leaves the start either returns "invalid
\* number of items" (flag below 1 or above 500) with the reader not
\* started, its count and cursor not set and nothing written, or goes on to
\* the header with no error and (main.go) the reader started with the flag
\* as its count; and a run with a rejected flag never starts the reader,
\* fetches no page and writes nothing up to its exit, which is with status
\* 1 unless a signal came first.
C21_FlagCheckedFirst ==
    /\ [][FlagCheckStep]_vars
    /\ [](~(maxItems >= 1 /\ maxItems <= 500) =>
            /\ pp = "idle" /\ page = 0 /\ out = << >> /\ ~writeFailed
            /\ ch = << >> /\ ~closed
            /\ pm \notin {"header", "loop", "footer", "stage_header",
                          "stage_page", "stage_footer"}
            /\ AppReturned => appErr = "invalid number of items"
            /\ pm = "exit" => exitCode \in {1, 2})

\* the upper end of the range was accepted: the reader is started with 500
\* as its count and the header is written
C21_Witness ==
    maxItems = 500 /\ pm = "loop" /\ pp = "next" /\ n = 500 /\ out = <<Header>>

(***************************************************************************)
(* The app package taken on its own (part_001): app.Run with a main        *)
(* function that registers exit handlers with AtExit, starts a goroutine   *)
(* with app.Go and returns; the goroutine registers handlers too.  A       *)
(* handler is named by its place in the order of registration.  In the     *)
(* programs of the repository no handler is registered, and RunExit is     *)
(* RunWait followed by RunExitHandlers.                                    *)
(***************************************************************************)
AppInit ==
    /\ maxItems = 1
    /\ pm = "fn"
    /\ appErr = "nil"
    /\ pp = "idle"
    /\ n = 0
    /\ reqURL = << >>
    /\ page = 0
    /\ batch = << >>
    /\ perr = "nil"
    /\ ch = << >>
    /\ closed = FALSE
    /\ seen = {}
    /\ out = << >>
    /\ writeFailed = FALSE
    /\ code = 0
    /\ shut = FALSE
    /\ exitCode = -1
    /\ fetched = << >>
    /\ sent = << >>
    /\ recvd = << >>
    /\ blockedShut = FALSE
    /\ tookAfter = FALSE
    /\ tookLate = FALSE
    /\ lastResp = NoResponse
    /\ lateFetch = FALSE
    /\ call = NoCall
    /\ exitHandlers = << >>
    /\ invoked = << >>

\* what the app package never touches
appIdle ==
    <<maxItems, n, reqURL, page, batch, ch, closed, seen, out, writeFailed,
      fetched, sent, recvd, lastResp, lateFetch, call>>

\* AtExit(fn), called by the main function or by the goroutine
AtExit ==
    /\ pm = "fn" \/ pp = "running"
    /\ Len(exitHandlers) < MaxHandlers
    /\ exitHandlers' = Append(exitHandlers, Len(exitHandlers) + 1)
    /\ UNCHANGED <<appIdle, pm, appErr, pp, perr, code, shut, exitCode, hist,
                   invoked>>

\* app.Go(fn), called by the main function
Go ==
    /\ pm = "fn"
    /\ pp = "idle"
    /\ pp' = "running"
    /\ UNCHANGED <<appIdle, pm, appErr, perr, code, shut, exitCode, hist,
                   exitHandlers, invoked>>

\* the function given to app.Go returns, with an error or without
GoReturn ==
    /\ pp = "running"
    /\ perr' \in {"nil", "failed"}
    /\ pp' = "report"
    /\ UNCHANGED <<appIdle, pm, appErr, code, shut, exitCode, hist,
                   exitHandlers, invoked>>

\* the main function given to app.Run returns, with an error or without
FnReturn ==
    /\ pm = "fn"
    /\ appErr' \in {"nil", "failed"}
    /\ pm' = "returned"
    /\ UNCHANGED <<appIdle, pp, perr, code, shut, exitCode, hist,
                   exitHandlers, invoked>>

\* wg.Wait() returns
RunWait ==
    /\ pm = "wait"
    /\ pp \in {"idle", "done"}
    /\ pm' = "handlers"
    /\ UNCHANGED <<appIdle, appErr, pp, perr, code, shut, exitCode, hist,
                   exitHandlers, invoked>>

\* one round of the loop over the exit handlers, from the last one down:
\* exitHandlers[i](Failed())
RunHandler ==
    /\ pm = "handlers"
    /\ Len(invoked) < Len(exitHandlers)
    /\ invoked' = Append(invoked,
                         [fn |-> exitHandlers[Len(exitHandlers) - Len(invoked)],
                          failed |-> (code # 0)])
    /\ UNCHANGED <<appIdle, pm, appErr, pp, perr, code, shut, exitCode, hist,
                   exitHandlers>>

\* the loop is over: os.Exit(int(code.Load()))
RunExitHandlers ==
    /\ pm = "handlers"
    /\ Len(invoked) = Len(exitHandlers)
    /\ exitCode' = code
    /\ pm' = "exit"
    /\ UNCHANGED <<appIdle, appErr, pp, perr, code, shut, hist, exitHandlers,
                   invoked>>

AppNext ==
    \/ AtExit
    \/ Go
    \/ GoReturn
    \/ ReaderReport
    \/ FnReturn
    \/ RunReport
    \/ RunWait
    \/ RunHandler
    \/ RunExitHandlers
    \/ Signal

AppSpec == AppInit /\ [][AppNext]_vars

\* C22: the exit handlers are called in the reverse of the order of their
\* registration, each at most once, only after every goroutine started with
\* app.Go has returned; when the process exits each one has been called,
\* and the flag each one was passed is true exactly when the exit status is
\* not zero.
C22_ExitHandlers ==
    /\ Len(invoked) <= Len(exitHandlers)
    /\ \A i \in DOMAIN invoked :
          invoked[i].fn = exitHandlers[Len(exitHandlers) + 1 - i]
    /\ invoked # << >> => (pm \in {"handlers", "exit"} /\ pp \in {"idle", "done"})
    /\ pm = "exit" =>
          /\ Len(invoked) = Len(exitHandlers)
          /\ \A i \in DOMAIN invoked : invoked[i].failed <=> (exitCode # 0)

\* C23: in the batch-stage variant a record that fails the link or the
\* timestamp check is only skipped: the callback of convert returns nil or
\* the target-reached signal for the batch, so the step that hands a batch
\* to convert leaves the run at the next page or at the footer, unless a
\* write has failed; it never ends the run with the error of the check.
C23_ValidationOnlySkips ==
    [][recvd' # recvd =>
          \/ pm' \in {"stage_page", "stage_footer"} /\ appErr' = "nil"
          \/ writeFailed' /\ appErr' = "writing to STDOUT"]_vars

\* C24: in the batch-stage variant reaching the target is a normal end.
\* Once the seen set holds maxItems identifiers and no write has failed the
\* run is at the footer or past it, and no page is fetched from then on;
\* the footer is in the output only if the target was reached, and then
\* theApp returns nil and the exit status is 0 (2 after a signal); a run
\* that has returned without the footer returns an error, which is the one
\* the pipeline ended with: of the page, of the batch or of the write.
C24_TargetReachedIsSuccess ==
    /\ [](TargetValid /\ Cardinality(seen) >= maxItems /\ ~writeFailed =>
             pm = "stage_footer" \/ FooterWritten)
    /\ [][pm = "stage_footer" \/ FooterWritten => page' = page]_vars
    /\ [](FooterWritten =>
             /\ Cardinality(seen) >= maxItems
             /\ appErr = "nil" /\ ~writeFailed
             /\ pm = "exit" => exitCode \in {0, 2})
    /\ [](AppReturned /\ ~FooterWritten => appErr # "nil" /\ appErr # ErrEOF)
    /\ [][pm = "stage_page" /\ pm' = "returned" /\ recvd' = recvd =>
             appErr' = BatchReaderNext(lastResp', reqURL).err]_vars
    /\ [][pm = "stage_footer" /\ pm' = "returned" =>
             IF writeFailed' THEN appErr' = "writing to STDOUT" /\ out' = out
             ELSE appErr' = "nil" /\ out' = Append(out, Footer)]_vars

\* the target of two items was reached on the second page, the footer was
\* written and the run has exited with status 0
C24_Witness ==
    /\ pm = "exit" /\ exitCode = 0 /\ FooterWritten
    /\ maxItems = 2 /\ page = 2 /\ Cardinality(seen) = 2

(***************************************************************************)
(* The generator variant (part_001): theApp ranges over                    *)
(* pump.Iter(pump.Bind(source(numItems), converter)).  Everything runs in  *)
(* the main goroutine: source yields each record that is not a duplicate   *)
(* to converter, which yields each record that validates to the loop body  *)
(* of theApp, which serialises and writes it.  It uses maxItems (the flag  *)
(* num-items), pm, appErr, reqURL (batch.Pagination.Next), page, seen,     *)
(* out, writeFailed and recvd; there is no reader goroutine.               *)
(***************************************************************************)
\* the state of the loop of source over a batch before its first record
SourceStart(sn) ==
    [seen |-> sn, buff |-> << >>, err |-> "nil", returned |-> FALSE,
     yields |-> 0]

\* converter for one record: nil for a record it skips, else what the yield
\* to the loop body of theApp returned, where the write of the failAt-th
\* item of this batch fails (none for failAt = 0)
converter(item, yields, failAt) ==
    IF LinkOf[item].err # "nil" THEN [err |-> "nil", written |-> FALSE]
    ELSE IF StampOf[item].err # "nil" THEN [err |-> "nil", written |-> FALSE]
    ELSE IF yields + 1 = failAt
    THEN [err |-> "writing to STDOUT", written |-> FALSE]
    ELSE [err |-> "nil", written |-> TRUE]

\* the body of the loop of source over a batch for one record: the
\* duplicate check, the yield, and the mark in the seen set after a yield
\* that returned nil
SourceItem(item, st, failAt) ==
    IF st.returned \/ item.ID \in st.seen THEN st
    ELSE LET y == converter(item, st.yields, failAt)
         IN  IF y.err # "nil"
             THEN [st EXCEPT !.err = y.err, !.returned = TRUE]
             ELSE [st EXCEPT
                     !.seen = @ \cup {item.ID},
                     !.buff = IF y.written THEN Append(@, ElementOf[item]) ELSE @,
                     !.yields = IF y.written THEN @ + 1 ELSE @]

\* the loop of source over the records of a batch
RECURSIVE SourceLoop(_, _, _)
SourceLoop(b, st, failAt) ==
    IF b = << >> THEN st
    ELSE SourceLoop(Tail(b), SourceItem(Head(b), st, failAt), failAt)

\* source for one batch: the loop, then the check of len(seen) against
\* numItems; done says that source has returned nil
SourceBatch(b, sn, numItems, failAt) ==
    LET st == SourceLoop(b, SourceStart(sn), failAt)
    IN  [seen |-> st.seen,
         buff |-> st.buff,
         err |-> st.err,
         done |-> ~st.returned /\ Cardinality(st.seen) >= numItems]

GenInit ==
    /\ maxItems \in Targets
    /\ pm = "gen_start"
    /\ appErr = "nil"
    /\ pp = "idle"
    /\ n = 0
    /\ reqURL = << >>
    /\ page = 0
    /\ batch = << >>
    /\ perr = "nil"
    /\ ch = << >>
    /\ closed = FALSE
    /\ seen = {}
    /\ out = << >>
    /\ writeFailed = FALSE
    /\ code = 0
    /\ shut = FALSE
    /\ exitCode = -1
    /\ fetched = << >>
    /\ sent = << >>
    /\ recvd = << >>
    /\ blockedShut = FALSE
    /\ tookAfter = FALSE
    /\ tookLate = FALSE
    /\ lastResp = NoResponse
    /\ lateFetch = FALSE
    /\ call = NoCall
    /\ exitHandlers = << >>
    /\ invoked = << >>

\* the flag check
GenStart ==
    /\ pm = "gen_start"
    /\ IF maxItems < 1 \/ maxItems > MaxItemsLimit
       THEN /\ appErr' = "invalid number of items"
            /\ pm' = "returned"
            /\ UNCHANGED reqURL
       ELSE /\ reqURL' = FirstURL
            /\ pm' = "gen_header"
            /\ UNCHANGED appErr
    /\ UNCHANGED <<stageIdle, page, seen, out, writeFailed, code, shut, recvd>>
    /\ UNCHANGED <<lastResp, lateFetch, call, exitHandlers, invoked>>

\* writeString(xmlHeader)
GenWriteHeader ==
    /\ pm = "gen_header"
    /\ \E ok \in BOOLEAN : Write(ok, <<Header>>, << >>, "gen_page")
    /\ UNCHANGED <<stageIdle, reqURL, page, seen, code, shut, recvd>>
    /\ UNCHANGED <<lastResp, lateFetch, call, exitHandlers, invoked>>

\* one round of the loop of source: fetch and check a page, yield its
\* records one by one; the items that come through are written
GenPage ==
    /\ pm = "gen_page"
    /\ page < MaxPages
    /\ \E resp \in (IF shut THEN {Cancelled} ELSE Responses) :
          \E r \in {BatchReaderNext(resp, reqURL)} :
              /\ reqURL' = r.reqURL
              /\ page' = page + 1
              /\ lastResp' = resp
              /\ lateFetch' = (lateFetch \/ shut)
              /\ IF r.err # "nil"
                 THEN /\ appErr' = r.err
                      /\ pm' = "returned"
                      /\ UNCHANGED <<seen, out, writeFailed, recvd>>
                 ELSE \E failAt \in 0 .. Len(r.batch) :
                      \E c \in {SourceBatch(r.batch, seen, maxItems, failAt)} :
                         /\ failAt # 0 => c.err = "writing to STDOUT"
                         /\ seen' = c.seen
                         /\ out' = out \o c.buff
                         /\ recvd' = Append(recvd, r.batch)
                         /\ writeFailed' = (c.err # "nil")
                         /\ appErr' = IF c.err # "nil" THEN c.err ELSE appErr
                         /\ pm' = IF c.err # "nil" THEN "returned"
                                  ELSE IF c.done THEN "gen_footer"
                                  ELSE "gen_page"
    /\ UNCHANGED <<stageIdle, code, shut>>
    /\ UNCHANGED <<call, exitHandlers, invoked>>

\* it.Err is nil: writeString("</channel>\n</rss>\n")
GenWriteFooter ==
    /\ pm = "gen_footer"
    /\ \E ok \in BOOLEAN : Write(ok, <<Footer>>, << >>, "returned")
    /\ UNCHANGED <<stageIdle, reqURL, page, seen, code, shut, recvd>>
    /\ UNCHANGED <<lastResp, lateFetch, call, exitHandlers, invoked>>

GenNext ==
    \/ GenStart
    \/ GenWriteHeader
    \/ GenPage
    \/ GenWriteFooter
    \/ RunReport
    \/ RunExit
    \/ Signal

GenSpec == GenInit /\ [][GenNext]_vars

\* C25: in the generator variant an identifier is in the seen set only
\* after its record passed the link and the timestamp check, that is, only
\* when an item with that identifier was yielded for output; so a record
\* the converter drops does not count towards the target: when source
\* returns nil for a valid target the output holds at least that many
\* items.
C25_SeenOnlyValidated ==
    /\ \A id \in seen : \E i \in DOMAIN OutItems : OutItems[i].guid = id
    /\ (TargetValid /\ pm = "gen_footer") => Len(OutItems) >= maxItems

\* C26: the exit status is set at most once.  It is 0 at the start and one
\* of 0, 1, 2 ever after; a step changes it only from 0, to 1 (the error of
\* theApp or of the reader function is reported) or to 2 (a signal), and
\* that step cancels the main context; once it is not 0 no report changes
\* it; the process exits with the status of that moment, and a run in which
\* theApp and the reader returned nil and no signal set the status exits
\* with 0.
C26_StatusSetOnce ==
    /\ [](code \in {0, 1, 2})
    /\ [](pm \in {"start", "stage_start"} => code \in {0, 2})
    /\ [][code # 0 => code' = code]_vars
    /\ [][code' # code => (code' \in {1, 2} /\ shut')]_vars
    /\ [][(code' # code /\ code' = 1) =>
              \/ pm = "returned" /\ pm' = "wait" /\ appErr # "nil"
              \/ pp = "report" /\ pp' = "done" /\ perr # "nil"]_vars
    /\ [](pm = "exit" => exitCode = code)
    /\ []((pm = "exit" /\ appErr = "nil" /\ perr = "nil" /\ exitCode # 2) =>
              exitCode = 0)
    /\ [](code # 0 => shut)

\* theApp returned an error after the reader function had returned one:
\* both were reported, and the process has exited with the status 1 that
\* the first report set
C26_Witness ==
    /\ pm = "exit"
    /\ exitCode = 1
    /\ appErr # "nil"
    /\ perr \notin {"nil", ErrShutdown}
    /\ pp = "done"

\* C27: in main.go the batch channel is closed exactly when the reader
\* function has returned, whatever it returned (nil, the error of a page,
\* the shutdown error): the step that closes it is the return, taken from
\* the loop, and there is one such step; after it nothing is sent and the
\* channel stays closed.  What was sent is what was taken followed by what
\* is still buffered, and the loop of theApp ends, unless a write failed,
\* only with the channel closed and every batch that was sent taken.
C27_ClosedOnceAfterLastSend ==
    /\ [](closed <=> ReaderReturned)
    /\ [][closed' # closed =>
              (~closed /\ pp \in {"next", "send"} /\ pp' = "report")]_vars
    /\ [][closed => (closed' /\ sent' = sent /\ perr' = perr)]_vars
    /\ [](sent = recvd \o ch)
    /\ []((pm = "footer" \/ (AppReturned /\ TargetValid /\ ~writeFailed)) =>
              (closed /\ ch = << >> /\ recvd = sent))

\* the reader returned the shutdown error after a send, and theApp still
\* took every batch that was sent and wrote the footer
C27_Witness ==
    /\ pm = "exit"
    /\ perr = ErrShutdown
    /\ closed
    /\ sent # << >>
    /\ recvd = sent
    /\ FooterWritten

\* C28: in main.go a run with target N calls next() at most N times.  Every
\* batch next() delivers is not empty and lowers the remaining count by its
\* length; next() is called only with a positive remaining count, each call
\* with the cursor the page before it gave (the first page for the first
\* call), and with the count not positive the reader returns nil with no
\* further call; a call that fails delivers nothing and makes the reader
\* return its error, after which no call is made.
C28_AtMostTargetFetches ==
    /\ [](TargetValid => page <= maxItems)
    /\ [](\A i \in DOMAIN fetched : fetched[i] # << >>)
    /\ [](pp # "idle" => n = maxItems - Len(Flatten(fetched)))
    /\ [](Len(fetched) <= page /\ page <= Len(fetched) + 1)
    /\ [][page' # page => (pp = "next" /\ n > 0 /\ page' = page + 1)]_vars
    /\ [][page' # page =>
              reqURL = (IF page = 0 THEN FirstURL
                        ELSE makeURL(lastResp.Next).link)]_vars
    /\ [][(pp = "next" /\ n <= 0 /\ pp' # pp) =>
              (pp' = "report" /\ perr' = "nil" /\ page' = page)]_vars
    /\ [][(page' # page /\ fetched' = fetched) =>
              (pp' = "report" /\ perr' # "nil" /\ n' = n)]_vars
    /\ [][ReaderReturned => (page' = page /\ fetched' = fetched)]_vars

\* a run with target 2 took two calls of next(), one record each, and the
\* reader returned nil
C28_Witness ==
    /\ maxItems = 2
    /\ page = 2
    /\ Len(fetched) = 2
    /\ n = 0
    /\ pp = "done"
    /\ perr = "nil"

=============================================================================
